---- MODULE Spec2Model ----
(***************************************************************************)
(* Model of the download orchestrator of universal-media-downloader        *)
(* (src/new.py): the Flask handlers download() and                         *)
(* set_browser_monitor_status(), the worker thread                         *)
(* _perform_yt_dlp_download, the external tool it supervises, the          *)
(* gui_message_queue, and the GUI thread (the queue consumer and           *)
(* cancel_download).                                                       *)
(*                                                                         *)
(* A job is one accepted call of download().  Its threading.Event and its  *)
(* subprocess.Popen object are identified by the job's slot number.  A     *)
(* slot is free again once the worker has returned and the consumer has    *)
(* taken the job's last message: from then on nothing in the program       *)
(* refers to the job.  The model is of the POSIX branch of the platform    *)
(* tests.                                                                  *)
(*                                                                         *)
(* Specifications:                                                         *)
(*   Spec        a client that sends a request only when no job is live;   *)
(*               the tool prints lines on stdout and stderr                *)
(*   FairSpec    Spec with fair scheduling of the program's threads        *)
(*   ResendSpec  a client that sends the same request again at any time    *)
(*               and switches the intake, while every started tool keeps   *)
(*               running silently                                          *)
(*   CollisionSpec  the filename collision loop of the worker alone, for   *)
(*               every content of download_dir                             *)
(*   TickSpec    one worker printing progress while the QTimer callback    *)
(*               check_flask_message_queue drains the queue                *)
(*   RetrySpec   one call of run_yt_dlp_command, for every result of the   *)
(*               tool, with its retries                                    *)
(*   ParseSpec   the stderr reader, for every line of output               *)
(*   ListSpec    the download lists of the window and their table model    *)
(*   SessionSpec one session: a formats request, a download with cookies,  *)
(*               and closeEvent at any time; os.unlink of a file that      *)
(*               exists succeeds                                           *)
(***************************************************************************)
EXTENDS Integers, Sequences, FiniteSets, TLC

\* ---------------------------------------------------------------- bounds
\* job slots: the number of jobs that can be live at the same time
MaxJobs == 2
\* lines the external tool prints on its stdout / on its stderr
MaxOut == 1
MaxErr == 1
\* lines an OS pipe holds before the writer blocks
PipeCap == 1
\* the files "base (k)ext" that can be in download_dir have k up to MaxFiles
MaxFiles == 3
\* words of a line of the tool's output
MaxTokens == 3
\* subprocess.run calls of one call of run_yt_dlp_command the model follows
MaxInvocations == 6
\* progress events a worker has queued beyond its first three events when
\* the consumer comes to tick
MaxQueued == 12

\* ------------------------------------------------------- program constants
\* error_lines[-10:]
TailLen == 10
\* max_messages_per_cycle of check_flask_message_queue
max_messages_per_cycle == 10
\* SettingsManager: 'retry_attempts': 3, never set again
retry_attempts == 3
\* Popen.returncode of a process ended by SIGTERM / SIGKILL
SIGTERM_RC == -15
SIGKILL_RC == -9

Jobs == 1..MaxJobs
\* None, as a job/process/event reference and as a return code
NoJob == 0
NoneRc == 999

\* request bodies: a single-item url, a playlist url, a missing/empty url
EmptyUrl == ""
Urls == {"watch?v=1", "playlist?list=1"}

\* a url of a platform whose PLATFORM_CONFIG says 'needs_cookies': True
CookieUrls == {"fb.watch/1"}

\* the keys active_processes can have
AllUrls == Urls \cup CookieUrls

\* exit codes the tool ends with by itself or after a signal from outside
ExitCodes == {0, 1, SIGTERM_RC}

\* what the tool prints on stdout, word by word: a progress line, a
\* post-processing marker, any other line
StdoutLines == {<<"[download]", "42.5%">>, <<"[ffmpeg]">>, <<"[youtube]">>}

\* the words of the lines the parsing is followed on: the markers, and words
\* with a '%' that hold a decimal number before it or do not
Tokens == {"[download]", "[ffmpeg]", "[ExtractAudio]", "[youtube]",
           "42.5%", "(7.0%)", "100%"}

\* the non-empty lines of at most MaxTokens words
Lines == UNION {[1..n -> Tokens] : n \in 1..MaxTokens}

\* final_output_path after the tool has exited: absent, present with size 0,
\* present with data
FileStates == {"missing", "empty", "full"}

TerminalStatuses == {"Completed", "Failed", "Cancelled"}

VARIABLES
  settings,               \* SettingsManager._settings (the key used here)
  gui_message_queue,      \* queue.Queue of message dicts
  jobUrl,                 \* url argument of each worker thread
  pc,                     \* position of each worker thread
  cancel_event,           \* threading.Event of each job: is_set()
  proc,                   \* the external process of each job and its pipes
  stdout_line,            \* worker local: line read from stdout, <<>> at EOF
  error_lines,            \* worker local: stderr lines read
  return_code,            \* worker local
  error_message,          \* worker local: str(e) of the caught exception
  active_downloads_data,  \* MainWindow.active_downloads_data
  active_processes,       \* MainWindow.active_processes
  guiPc,                  \* position of the GUI thread inside cancel_download
  guiUrl,                 \* url_to_cancel of the running cancel_download
  guiSignals,             \* history: what the running cancel_download has
                          \* done so far: "set", "SIGTERM", "SIGKILL"
  lastResp,               \* HTTP status of the last /download request
  emitted,                \* history: statuses/types each worker has put
  cancelAtPut,            \* history: cancel_event at the put of the terminal
  cancelAtPoll,           \* history: cancel_event when return_code was read
  fileAtVerify,           \* history: state of the output path when verified
  intakeAtSubmit,         \* history: browser_monitor_enabled at acceptance
  soleAtSubmit,           \* history: no other job of the url was live at
                          \* acceptance, and none has been accepted since
  finishedUrls,           \* history: urls of the jobs that are over
  consumed,               \* history: events of each job the consumer has taken
  drained,                \* history: url and terminal status of the job that
                          \* was last over in each slot
  download_dir,           \* names of the files in download_dir
  counter,                \* collision loop: counter
  current_filename,       \* collision loop: current_filename
  namePc,                 \* collision loop: position
  messages_processed,     \* check_flask_message_queue: messages_processed
  tickPc,                 \* check_flask_message_queue: position
  queueAtTick,            \* history: the queue when the tick began
  model_data,             \* active_downloads_model._data
  data_shared,            \* _data is the list object active_downloads_data
  current_panel_type,     \* MainWindow.current_panel_type
  closed,                 \* closeEvent has returned
  cookie_files,           \* the temporary cookie files that exist
  ytPc,                   \* run_yt_dlp_command: position
  args,                   \* run_yt_dlp_command: args of the current frame
  cookies,                \* run_yt_dlp_command: cookies that convert to text
  retry_count,            \* run_yt_dlp_command: retry_count of the frame
  temp_cookie_file_path,  \* run_yt_dlp_command: the variable in each frame
  result,                 \* run_yt_dlp_command: result of subprocess.run
  returned,               \* run_yt_dlp_command: what the call returns
  invocations,            \* history: number of subprocess.run calls
  invoked_args,           \* history: the args of each subprocess.run call
  delays                  \* history: the arguments of time.sleep

vars == <<settings, gui_message_queue, jobUrl, pc, cancel_event, proc,
          stdout_line, error_lines, return_code, error_message,
          active_downloads_data, active_processes, guiPc, guiUrl, guiSignals,
          lastResp,
          emitted, cancelAtPut, cancelAtPoll, fileAtVerify, intakeAtSubmit,
          soleAtSubmit, finishedUrls, consumed, drained, download_dir,
          counter, current_filename, namePc, messages_processed, tickPc,
          queueAtTick, model_data, data_shared, current_panel_type, closed,
          cookie_files, ytPc, args, cookies, retry_count,
          temp_cookie_file_path, result, returned, invocations, invoked_args,
          delays>>

\* the variables of the job slots
jobVars == <<jobUrl, pc, cancel_event, proc, stdout_line, error_lines,
             return_code, error_message, emitted, cancelAtPut, cancelAtPoll,
             fileAtVerify, intakeAtSubmit, soleAtSubmit>>
\* the list of the active table model and the panel shown
listVars == <<model_data, data_shared, current_panel_type>>
guiVars == <<active_downloads_data, active_processes, guiPc, guiUrl,
             guiSignals, listVars>>
\* the variables of the collision loop and of the consumer's history
nameVars == <<download_dir, counter, current_filename, namePc>>
histVars == <<consumed, drained>>
\* the variables of one polling tick of the consumer
tickVars == <<messages_processed, tickPc, queueAtTick>>
\* the variables of a call of run_yt_dlp_command
ytVars == <<ytPc, args, cookies, retry_count, temp_cookie_file_path, result,
            returned, invocations, invoked_args, delays>>
\* what the download handlers and the consumer leave alone
farVars == <<ytVars, closed, cookie_files>>
\* what a worker leaves alone but for its cookie file
restVars == <<settings, lastResp, finishedUrls, histVars, nameVars, tickVars,
              ytVars, closed>>
reqVars == <<restVars, cookie_files>>

\* ---------------------------------------------------------------- helpers
\* any(pattern in url.lower() for pattern in [..., 'playlist', 'list='])
is_playlist(url) == url = "playlist?list=1"

NoMessage == [kind |-> "none", rc |-> NoneRc, tail |-> <<>>]

\* a message dict of gui_message_queue
Msg(type, url, job, status, message) ==
  [type |-> type, url |-> url, job |-> job, status |-> status,
   message |-> message, progress |-> <<>>]

\* seq[-n:]
LastN(seq, n) ==
  IF Len(seq) <= n THEN seq ELSE SubSeq(seq, Len(seq) - n + 1, Len(seq))

\* [d for d in rows if d.get('url') != url]
RowsWithout(rows, url) == SelectSeq(rows, LAMBDA d : d.url # url)

\* any(d['url'] == url for d in rows)
HasRow(rows, url) == \E i \in 1..Len(rows) : rows[i].url = url

\* part: the tool has a partial output file ("<name>.part") in download_dir
NoProc == [state |-> "none", rc |-> NoneRc, out |-> <<>>, err |-> <<>>,
           nOut |-> 0, nErr |-> 0, part |-> FALSE]

\* active_processes is a dict keyed by url; NoEntry stands for an absent key
NoEntry == [present |-> FALSE, process |-> NoJob, cancel_event |-> NoJob]

\* Popen.poll()
Poll(p) == IF p.state = "exited" THEN p.rc ELSE NoneRc

\* Popen.terminate(): SIGTERM; the tool dies of it (returncode -15) or, when
\* dies is FALSE, handles the signal and goes on
Terminate(p, dies) ==
  IF p.state = "running" /\ dies
    THEN [p EXCEPT !.state = "exited", !.rc = SIGTERM_RC]
    ELSE p

\* Popen.kill() and wait(): SIGKILL cannot be handled
Kill(p) ==
  IF p.state = "running"
    THEN [p EXCEPT !.state = "exited", !.rc = SIGKILL_RC]
    ELSE p

\* a job whose worker has returned and whose messages have all been consumed
DrainedIn(j, queue) ==
  /\ pc[j] = "done"
  /\ \A i \in 1..Len(queue) : queue[i].job # j

\* a job that has been accepted and is not over
Live(j) == pc[j] # "idle"

\* the name of a message for the histories: its status, or its type
EventName(m) == IF m.type = "update_download_status" THEN m.status ELSE m.type

\* the terminal status among the events of a worker, "" if there is none
terminal_status(events) ==
  LET T == {i \in 1..Len(events) : events[i] \in TerminalStatuses}
  IN  IF T = {} THEN "" ELSE events[CHOOSE i \in T : TRUE]

NoDrained == [url |-> EmptyUrl, status |-> ""]

\* subprocess.run has not returned in this call
NoResult == [returncode |-> NoneRc, stderr |-> <<>>]

\* lines 614-619, 623: base_name + ext for counter 0, and
\* f"{base_name} ({counter}){ext}"; a name is kept in its three parts
Filename(base_name, k, ext) ==
  <<base_name, IF k = 0 THEN <<>> ELSE <<k>>, ext>>

\* the predicted filename of the single-item job, split by os.path.splitext
base_name == "video"
ext == ".mp4"

\* the files download_dir can hold: the predicted name, its numbered
\* variants, and a file of another name
DirFiles ==
  {Filename(base_name, k, ext) : k \in 0..MaxFiles} \cup {Filename("other", 0, ext)}

\* ---------------------------------------------------------------- Init
\* MainWindow.__init__, lines 2011-2012 and 2027: the table model is built on
\* the list object active_downloads_data itself
InitLists ==
  /\ model_data = <<>>
  /\ data_shared = TRUE
  /\ current_panel_type = "active_downloads"

\* no call of run_yt_dlp_command is under way
InitYt ==
  /\ ytPc = "none"
  /\ args = ""
  /\ cookies = FALSE
  /\ retry_count = 0
  /\ temp_cookie_file_path = <<>>
  /\ result = NoResult
  /\ returned = ""
  /\ invocations = 0
  /\ invoked_args = <<>>
  /\ delays = <<>>

\* the window is open, no temporary cookie file exists
InitFar ==
  /\ InitYt
  /\ closed = FALSE
  /\ cookie_files = {}

\* the orchestrator before the first request
InitOrchestrator ==
  /\ gui_message_queue = <<>>
  /\ jobUrl = [j \in Jobs |-> EmptyUrl]
  /\ pc = [j \in Jobs |-> "idle"]
  /\ cancel_event = [j \in Jobs |-> FALSE]
  /\ proc = [j \in Jobs |-> NoProc]
  /\ stdout_line = [j \in Jobs |-> <<>>]
  /\ error_lines = [j \in Jobs |-> <<>>]
  /\ return_code = [j \in Jobs |-> NoneRc]
  /\ error_message = [j \in Jobs |-> NoMessage]
  /\ active_downloads_data = <<>>
  /\ active_processes = [u \in AllUrls |-> NoEntry]
  /\ guiPc = "idle"
  /\ guiUrl = EmptyUrl
  /\ guiSignals = <<>>
  /\ InitLists
  /\ lastResp = 0
  /\ emitted = [j \in Jobs |-> <<>>]
  /\ cancelAtPut = [j \in Jobs |-> FALSE]
  /\ cancelAtPoll = [j \in Jobs |-> FALSE]
  /\ fileAtVerify = [j \in Jobs |-> "missing"]
  /\ intakeAtSubmit = [j \in Jobs |-> TRUE]
  /\ soleAtSubmit = [j \in Jobs |-> TRUE]
  /\ finishedUrls = {}
  /\ consumed = [j \in Jobs |-> <<>>]
  /\ drained = [j \in Jobs |-> NoDrained]

\* no filename prediction is under way
InitNaming ==
  /\ download_dir = {}
  /\ counter = 0
  /\ current_filename = Filename(base_name, 0, ext)
  /\ namePc = "idle"

\* no tick of the consumer is under way
InitTick ==
  /\ messages_processed = 0
  /\ tickPc = "idle"
  /\ queueAtTick = <<>>

Init ==
  /\ settings = [browser_monitor_enabled |-> TRUE,
                 overwrite_existing_file |-> FALSE]
  /\ InitOrchestrator
  /\ InitNaming
  /\ InitTick
  /\ InitFar

\* a queue that hands out the newest message first
Put_in_front(j, m) ==
  /\ gui_message_queue' = <<m>> \o gui_message_queue
  /\ emitted' = [emitted EXCEPT ![j] =
                   Append(@, IF m.type = "update_download_status"
                             THEN m.status ELSE m.type)]

\* gui_message_queue.put(m) by the worker of job j
Put(j, m) ==
  /\ gui_message_queue' = Append(gui_message_queue, m)
  /\ emitted' = [emitted EXCEPT ![j] =
                   Append(@, IF m.type = "update_download_status"
                             THEN m.status ELSE m.type)]

\* ------------------------------------------------- Flask request handlers
\* download(), lines 1061-1149: the command is built, 'add_download' is
\* queued with a new cancel_event, the worker thread is started
download_accept(url, j) ==
  /\ pc[j] = "idle"
  /\ \A k \in Jobs : k < j => pc[k] # "idle"
  /\ jobUrl' = [jobUrl EXCEPT ![j] = url]
  /\ gui_message_queue' =
       Append(gui_message_queue, Msg("add_download", url, j, "Queued", NoMessage))
  /\ pc' = [pc EXCEPT ![j] = "start"]
  /\ lastResp' = 200
  /\ intakeAtSubmit' = [intakeAtSubmit EXCEPT ![j] = settings.browser_monitor_enabled]
  /\ soleAtSubmit' = [k \in Jobs |->
                        IF k = j
                          THEN \A i \in Jobs \ {j} : Live(i) => jobUrl[i] # url
                          ELSE soleAtSubmit[k] /\ ~(Live(k) /\ jobUrl[k] = url)]
  /\ consumed' = [consumed EXCEPT ![j] = <<>>]
  /\ drained' = [drained EXCEPT ![j] = NoDrained]
  /\ UNCHANGED <<settings, finishedUrls, cancel_event, proc, stdout_line,
                 error_lines, return_code, error_message, emitted, cancelAtPut,
                 cancelAtPoll, fileAtVerify, guiVars, nameVars, tickVars, farVars>>

\* download() answering 400 only after it has queued the job
download_reject_after_queueing ==
  /\ lastResp' = 400
  /\ gui_message_queue' =
       Append(gui_message_queue, Msg("add_download", EmptyUrl, NoJob, "Queued", NoMessage))
  /\ UNCHANGED <<settings, finishedUrls, jobVars, guiVars, histVars, nameVars, tickVars, farVars>>

\* download(), lines 1052-1059: "if not url: return ..., 400"
download_reject ==
  /\ lastResp' = 400
  /\ UNCHANGED <<settings, finishedUrls, gui_message_queue, jobVars, guiVars,
                 histVars, nameVars, tickVars, farVars>>

\* POST /download
download(url) ==
  IF url = EmptyUrl
    THEN download_reject
    ELSE \E j \in Jobs : download_accept(url, j)

\* a request without a url
DownloadNoUrl == download(EmptyUrl)

\* the request of the single-item url, at any time
DownloadAgain == download("watch?v=1")

\* a request with a url, from a client that waits until no job is live
DownloadWhenIdle ==
  /\ \A j \in Jobs : ~Live(j)
  /\ \E url \in Urls : download(url)

\* set_browser_monitor_status(), lines 1151-1158, and
\* MainWindow.toggle_browser_monitor(), lines 3733-3742
set_browser_monitor_status(status) ==
  /\ settings.browser_monitor_enabled # status
  /\ settings' = [settings EXCEPT !.browser_monitor_enabled = status]
  /\ UNCHANGED <<lastResp, finishedUrls, gui_message_queue, jobVars, guiVars,
                 histVars, nameVars, tickVars, farVars>>

SetBrowserMonitorStatus == \E status \in BOOLEAN : set_browser_monitor_status(status)

\* --------------------------------------------------- the external process
\* the tool prints a line on stdout; it blocks while the pipe is full.  A
\* progress line reports data the tool has written to its partial file.
ProcWriteOut(j) ==
  /\ proc[j].state = "running"
  /\ proc[j].nOut < MaxOut
  /\ Len(proc[j].out) < PipeCap
  /\ \E line \in StdoutLines :
       proc' = [proc EXCEPT ![j].out = Append(@, line), ![j].nOut = @ + 1,
                            ![j].part = @ \/ line = <<"[download]", "42.5%">>]
  /\ UNCHANGED <<jobUrl, pc, cancel_event, stdout_line, error_lines,
                 return_code, error_message, emitted, cancelAtPut, cancelAtPoll,
                 fileAtVerify, intakeAtSubmit, soleAtSubmit,
                 gui_message_queue, guiVars, reqVars>>

\* the tool prints its next diagnostic line on stderr
ProcWriteErr(j) ==
  /\ proc[j].state = "running"
  /\ proc[j].nErr < MaxErr
  /\ Len(proc[j].err) < PipeCap
  /\ proc' = [proc EXCEPT ![j].err = Append(@, proc[j].nErr + 1), ![j].nErr = @ + 1]
  /\ UNCHANGED <<jobUrl, pc, cancel_event, stdout_line, error_lines,
                 return_code, error_message, emitted, cancelAtPut, cancelAtPoll,
                 fileAtVerify, intakeAtSubmit, soleAtSubmit,
                 gui_message_queue, guiVars, reqVars>>

\* the tool ends with some exit code; its pipes are closed.  On success it
\* has renamed its partial file to the final name.
ProcExit(j) ==
  /\ proc[j].state = "running"
  /\ \E rc \in ExitCodes :
       proc' = [proc EXCEPT ![j].state = "exited", ![j].rc = rc,
                            ![j].part = @ /\ rc # 0]
  /\ UNCHANGED <<jobUrl, pc, cancel_event, stdout_line, error_lines,
                 return_code, error_message, emitted, cancelAtPut, cancelAtPoll,
                 fileAtVerify, intakeAtSubmit, soleAtSubmit,
                 gui_message_queue, guiVars, reqVars>>

\* ------------------------------------ the worker, _perform_yt_dlp_download
\* what run_command_in_bundle re-raises from the metadata run (check=False,
\* timeout=30), lines 500-503
PredictionErrors == {"TimeoutExpired", "FileNotFoundError"}

\* URLAnalyzer.needs_cookies, lines 177-185, and line 1068: the browser
\* extension sends its cookies with every request, cookie_string is made of
\* them for the urls of the platforms that need cookies
needs_cookies(url) == url \in CookieUrls

\* the file tempfile.mkstemp makes for the worker of job j, line 556
JobCookieFile(j) == [owner |-> "_perform_yt_dlp_download", n |-> j]

\* lines 555-562: the cookie file the worker of job j writes, if any
CookieOf(j) == IF needs_cookies(jobUrl[j]) THEN {JobCookieFile(j)} ELSE {}

\* lines 529-639: the cookie file is written (when the write fails the
\* handler at 565-568 unlinks the file and raises), then the filename
\* prediction (the metadata run ends, with a name or without a usable one, or
\* run_command_in_bundle raises), os.makedirs of the playlist directory,
\* then 'Initializing'
predict_filename(j) ==
  /\ pc[j] = "start"
  /\ \/ /\ Put(j, Msg("update_download_status", jobUrl[j], j, "Initializing",
                      NoMessage))
        /\ pc' = [pc EXCEPT ![j] = "popen"]
        /\ cookie_files' = cookie_files \cup CookieOf(j)
        /\ UNCHANGED error_message
     \/ /\ pc' = [pc EXCEPT ![j] = "except"]
        /\ \E e \in PredictionErrors :
             error_message' = [error_message EXCEPT ![j] =
                                 [kind |-> e, rc |-> NoneRc, tail |-> <<>>]]
        /\ cookie_files' = cookie_files \cup CookieOf(j)
        /\ UNCHANGED <<gui_message_queue, emitted>>
     \/ /\ needs_cookies(jobUrl[j])
        /\ pc' = [pc EXCEPT ![j] = "except"]
        /\ error_message' = [error_message EXCEPT ![j] =
                               [kind |-> "OSError", rc |-> NoneRc, tail |-> <<>>]]
        /\ cookie_files' = cookie_files \ {JobCookieFile(j)}
        /\ UNCHANGED <<gui_message_queue, emitted>>
  /\ UNCHANGED <<jobUrl, cancel_event, proc, stdout_line, error_lines,
                 return_code, cancelAtPut, cancelAtPoll, fileAtVerify,
                 intakeAtSubmit, soleAtSubmit, guiVars, restVars>>

\* lines 641-655: subprocess.Popen starts the tool, 'register_process' is
\* queued; or Popen raises OSError
popen(j) ==
  /\ pc[j] = "popen"
  /\ \/ /\ proc' = [proc EXCEPT ![j].state = "running"]
        /\ Put(j, Msg("register_process", jobUrl[j], j, "", NoMessage))
        /\ pc' = [pc EXCEPT ![j] = "loop"]
        /\ UNCHANGED error_message
     \/ /\ pc' = [pc EXCEPT ![j] = "except"]
        /\ error_message' = [error_message EXCEPT ![j] =
                               [kind |-> "popen", rc |-> NoneRc, tail |-> <<>>]]
        /\ UNCHANGED <<proc, gui_message_queue, emitted>>
  /\ UNCHANGED <<jobUrl, cancel_event, stdout_line, error_lines, return_code,
                 cancelAtPut, cancelAtPoll, fileAtVerify, intakeAtSubmit,
                 soleAtSubmit, guiVars, reqVars>>

\* lines 660-663: the cancellation test at the top of the read loop
loop_check_cancel(j) ==
  /\ pc[j] = "loop"
  /\ pc' = [pc EXCEPT ![j] = IF cancel_event[j] THEN "poll" ELSE "read_stdout"]
  /\ UNCHANGED <<jobUrl, cancel_event, proc, stdout_line, error_lines,
                 return_code, error_message, emitted, cancelAtPut, cancelAtPoll,
                 fileAtVerify, intakeAtSubmit, soleAtSubmit,
                 gui_message_queue, guiVars, reqVars>>

\* line 665: stdout.readline() blocks until a line is there or the pipe is
\* closed
read_stdout(j) ==
  /\ pc[j] = "read_stdout"
  /\ \/ /\ proc[j].out # <<>>
        /\ stdout_line' = [stdout_line EXCEPT ![j] = Head(proc[j].out)]
        /\ proc' = [proc EXCEPT ![j].out = Tail(@)]
     \/ /\ proc[j].out = <<>>
        /\ proc[j].state = "exited"
        /\ stdout_line' = [stdout_line EXCEPT ![j] = <<>>]
        /\ UNCHANGED proc
  /\ pc' = [pc EXCEPT ![j] = "read_stderr"]
  /\ UNCHANGED <<jobUrl, cancel_event, error_lines, return_code, error_message,
                 emitted, cancelAtPut, cancelAtPoll, fileAtVerify,
                 intakeAtSubmit, soleAtSubmit, gui_message_queue, guiVars,
                 reqVars>>

\* marker in stdout_line, for a marker that is a word
HasToken(line, marker) == \E i \in 1..Len(line) : line[i] = marker

\* '%' in stdout_line
HasPercent(line) == \E i \in 1..Len(line) : line[i] \in {"42.5%", "(7.0%)", "100%"}

\* group 1 of r'(\d+\.\d+)%' in a word, as <<digits, digits>>; <<>> when
\* the word has no match
DecimalPercent(word) ==
  CASE word = "42.5%" -> <<42, 5>>
    [] word = "(7.0%)" -> <<7, 0>>
    [] OTHER -> <<>>

\* re.search(r'(\d+\.\d+)%', stdout_line): the first match, <<>> for None
FirstMatch(line) ==
  LET at == {i \in 1..Len(line) : DecimalPercent(line[i]) # <<>>}
  IN  IF at = {}
        THEN <<>>
        ELSE DecimalPercent(line[CHOOSE i \in at : \A k \in at : i <= k])

NoEvent == [status |-> "", progress |-> <<>>]

\* lines 671-679: the event the worker derives from one stdout line
ParseLine(line) ==
  IF HasToken(line, "[download]") /\ HasPercent(line)
    THEN IF FirstMatch(line) # <<>>
           THEN [status |-> "Downloading", progress |-> FirstMatch(line)]
           ELSE NoEvent
    ELSE IF HasToken(line, "[ExtractAudio]") \/ HasToken(line, "[ffmpeg]")
           THEN [status |-> "Processing", progress |-> <<>>]
           ELSE NoEvent

\* lines 676 and 679: the message of an event
StatusMsg(url, j, event) ==
  [Msg("update_download_status", url, j, event.status, NoMessage)
     EXCEPT !.progress = event.progress]

\* lines 666-683: stderr.readline() (blocking), the loop exit test and the
\* handling of the two lines read
read_stderr(j) ==
  /\ pc[j] = "read_stderr"
  /\ proc[j].err # <<>> \/ proc[j].state = "exited"
  /\ LET eof == proc[j].err = <<>>
         event == ParseLine(stdout_line[j])
     IN  /\ proc' = [proc EXCEPT ![j].err = IF eof THEN @ ELSE Tail(@)]
         /\ IF stdout_line[j] = <<>> /\ eof /\ Poll(proc[j]) # NoneRc
              THEN /\ pc' = [pc EXCEPT ![j] = "poll"]
                   /\ UNCHANGED <<error_lines, gui_message_queue, emitted>>
              ELSE /\ pc' = [pc EXCEPT ![j] = "loop"]
                   /\ error_lines' = [error_lines EXCEPT ![j] =
                                        IF eof THEN @ ELSE Append(@, Head(proc[j].err))]
                   /\ IF event # NoEvent
                        THEN Put(j, StatusMsg(jobUrl[j], j, event))
                        ELSE UNCHANGED <<gui_message_queue, emitted>>
  /\ stdout_line' = [stdout_line EXCEPT ![j] = <<>>]
  /\ UNCHANGED <<jobUrl, cancel_event, return_code, error_message, cancelAtPut,
                 cancelAtPoll, fileAtVerify, intakeAtSubmit, soleAtSubmit,
                 guiVars, reqVars>>

\* line 685
poll_return_code(j) ==
  /\ pc[j] = "poll"
  /\ return_code' = [return_code EXCEPT ![j] = Poll(proc[j])]
  /\ cancelAtPoll' = [cancelAtPoll EXCEPT ![j] = cancel_event[j]]
  /\ pc' = [pc EXCEPT ![j] = "handle_cancel"]
  /\ UNCHANGED <<jobUrl, cancel_event, proc, stdout_line, error_lines,
                 error_message, emitted, cancelAtPut, fileAtVerify,
                 intakeAtSubmit, soleAtSubmit, gui_message_queue, guiVars,
                 reqVars>>

\* handle_cancel without its "return": 'Cancelled' is put and the worker goes
\* on to the return-code handling
handle_cancel_without_return(j) ==
  /\ pc[j] = "handle_cancel"
  /\ IF cancel_event[j]
       THEN /\ Put(j, Msg("update_download_status", jobUrl[j], j, "Cancelled",
                          [kind |-> "cancelled", rc |-> NoneRc, tail |-> <<>>]))
            /\ cancelAtPut' = [cancelAtPut EXCEPT ![j] = TRUE]
       ELSE UNCHANGED <<gui_message_queue, emitted, cancelAtPut>>
  /\ pc' = [pc EXCEPT ![j] = "handle_return_code"]
  /\ UNCHANGED <<jobUrl, cancel_event, proc, stdout_line, error_lines,
                 return_code, error_message, cancelAtPoll, fileAtVerify,
                 intakeAtSubmit, soleAtSubmit, guiVars, reqVars>>

\* handle_cancel with the two tests in the other order: a failing return code
\* raises before the cancellation is looked at
handle_cancel_after_return_code(j) ==
  /\ pc[j] = "handle_cancel"
  /\ IF return_code[j] \notin {0, SIGTERM_RC, NoneRc}
       THEN /\ pc' = [pc EXCEPT ![j] = "handle_return_code"]
            /\ UNCHANGED <<gui_message_queue, emitted, cancelAtPut>>
       ELSE IF cancel_event[j]
         THEN /\ Put(j, Msg("update_download_status", jobUrl[j], j, "Cancelled",
                            [kind |-> "cancelled", rc |-> NoneRc, tail |-> <<>>]))
              /\ cancelAtPut' = [cancelAtPut EXCEPT ![j] = TRUE]
              /\ pc' = [pc EXCEPT ![j] = "finally"]
         ELSE /\ pc' = [pc EXCEPT ![j] = "handle_return_code"]
              /\ UNCHANGED <<gui_message_queue, emitted, cancelAtPut>>
  /\ UNCHANGED <<jobUrl, cancel_event, proc, stdout_line, error_lines,
                 return_code, error_message, cancelAtPoll, fileAtVerify,
                 intakeAtSubmit, soleAtSubmit, guiVars, reqVars>>

\* lines 687-690: "Handle cancellation FIRST": 'Cancelled' and return
handle_cancel(j) ==
  /\ pc[j] = "handle_cancel"
  /\ IF cancel_event[j]
       THEN /\ Put(j, Msg("update_download_status", jobUrl[j], j, "Cancelled",
                          [kind |-> "cancelled", rc |-> NoneRc, tail |-> <<>>]))
            /\ cancelAtPut' = [cancelAtPut EXCEPT ![j] = TRUE]
            /\ pc' = [pc EXCEPT ![j] = "finally"]
       ELSE /\ pc' = [pc EXCEPT ![j] = "handle_return_code"]
            /\ UNCHANGED <<gui_message_queue, emitted, cancelAtPut>>
  /\ UNCHANGED <<jobUrl, cancel_event, proc, stdout_line, error_lines,
                 return_code, error_message, cancelAtPoll, fileAtVerify,
                 intakeAtSubmit, soleAtSubmit, guiVars, reqVars>>

\* line 693: the return codes for which the worker raises
ReturnCodeFails(rc) == rc \notin {0, SIGTERM_RC}

\* lines 702-716: os.path.isdir / os.path.exists of final_output_path
OutputVerified(f) == f # "missing"

\* lines 692-727: the return-code test, the verification of what is at
\* final_output_path by then (the file system is shared with the tool and with
\* the user), then 'Completed'
handle_return_code(j) ==
  /\ pc[j] = "handle_return_code"
  /\ IF ReturnCodeFails(return_code[j])
       THEN /\ error_message' = [error_message EXCEPT ![j] =
                 [kind |-> "exit", rc |-> return_code[j],
                  tail |-> LastN(error_lines[j], TailLen)]]
            /\ pc' = [pc EXCEPT ![j] = "except"]
            /\ UNCHANGED <<gui_message_queue, emitted, cancelAtPut, fileAtVerify>>
       ELSE \E f \in FileStates :
            /\ fileAtVerify' = [fileAtVerify EXCEPT ![j] = f]
            /\ IF OutputVerified(f)
                 THEN /\ Put(j, Msg("update_download_status", jobUrl[j], j,
                                    "Completed", NoMessage))
                      /\ cancelAtPut' = [cancelAtPut EXCEPT ![j] = cancel_event[j]]
                      /\ pc' = [pc EXCEPT ![j] = "add_completed"]
                      /\ UNCHANGED error_message
                 ELSE /\ error_message' = [error_message EXCEPT ![j] =
                           [kind |-> "notfound", rc |-> NoneRc, tail |-> <<>>]]
                      /\ pc' = [pc EXCEPT ![j] = "except"]
                      /\ UNCHANGED <<gui_message_queue, emitted, cancelAtPut>>
  /\ UNCHANGED <<jobUrl, cancel_event, proc, stdout_line, error_lines,
                 return_code, cancelAtPoll, intakeAtSubmit, soleAtSubmit,
                 guiVars, reqVars>>

\* lines 728-737
put_add_completed(j) ==
  /\ pc[j] = "add_completed"
  /\ Put(j, Msg("add_completed", jobUrl[j], j, "", NoMessage))
  /\ pc' = [pc EXCEPT ![j] = "finally"]
  /\ UNCHANGED <<jobUrl, cancel_event, proc, stdout_line, error_lines,
                 return_code, error_message, cancelAtPut, cancelAtPoll,
                 fileAtVerify, intakeAtSubmit, soleAtSubmit, guiVars, reqVars>>

\* lines 739-742: except Exception: 'Failed' with str(e)
except_handler(j) ==
  /\ pc[j] = "except"
  /\ Put(j, Msg("update_download_status", jobUrl[j], j, "Failed", error_message[j]))
  /\ cancelAtPut' = [cancelAtPut EXCEPT ![j] = cancel_event[j]]
  /\ pc' = [pc EXCEPT ![j] = "finally"]
  /\ UNCHANGED <<jobUrl, cancel_event, proc, stdout_line, error_lines,
                 return_code, error_message, cancelAtPoll, fileAtVerify,
                 intakeAtSubmit, soleAtSubmit, guiVars, reqVars>>

\* lines 744-759: finally: terminate() and wait(timeout=5) (TimeoutExpired is
\* caught) if the process still runs and the job is cancelled, then
\* 'remove_process', then the cookie file is unlinked
finally_remove_process(j) ==
  /\ pc[j] = "finally"
  /\ \E dies \in BOOLEAN :
       proc' = [proc EXCEPT ![j] =
                  IF @.state # "none" /\ Poll(@) = NoneRc /\ cancel_event[j]
                    THEN Terminate(@, dies) ELSE @]
  /\ Put(j, Msg("remove_process", jobUrl[j], j, "", NoMessage))
  /\ cookie_files' = cookie_files \ {JobCookieFile(j)}
  /\ pc' = [pc EXCEPT ![j] = "done"]
  /\ UNCHANGED <<jobUrl, cancel_event, stdout_line, error_lines, return_code,
                 error_message, cancelAtPut, cancelAtPoll, fileAtVerify,
                 intakeAtSubmit, soleAtSubmit, guiVars, restVars>>

\* ------------------------- the worker: the collision loop, lines 614-627
\* a loop test that looks at the directory once only
name_collides_first_time(name) ==
  /\ ~settings.overwrite_existing_file
  /\ name \in download_dir
  /\ counter = 0

\* a loop test that does not read the setting
name_collides_whatever_the_setting(name) == name \in download_dir

\* line 621: not settings.get('overwrite_existing_file') and
\* os.path.exists(os.path.join(download_dir, current_filename))
name_collides(name) ==
  /\ ~settings.overwrite_existing_file
  /\ name \in download_dir

\* lines 621-623: one iteration of the while loop
collision_loop_step ==
  /\ namePc = "loop"
  /\ name_collides(current_filename)
  /\ counter' = counter + 1
  /\ current_filename' = Filename(base_name, counter + 1, ext)
  /\ UNCHANGED <<namePc, download_dir, settings, lastResp, finishedUrls,
                 histVars, tickVars, farVars, gui_message_queue, jobVars, guiVars>>

\* lines 621, 625-627: the loop ends, current_filename is the name of the
\* output file
collision_loop_exit ==
  /\ namePc = "loop"
  /\ ~name_collides(current_filename)
  /\ namePc' = "chosen"
  /\ UNCHANGED <<counter, current_filename, download_dir, settings, lastResp,
                 finishedUrls, histVars, tickVars, farVars, gui_message_queue, jobVars, guiVars>>

\* ------------------------------------------------- the GUI thread: consumer
\* A row is a reference to a download_info dict.  active_downloads_data
\* holds at most one dict per url (line 3480), so the rows of a url that are
\* not detached are one and the same dict; a detached row is a dict that has
\* left active_downloads_data and is still in the list of the table model.
Row(url) == [url |-> url, status |-> "Queued", detached |-> FALSE]

\* the two lists of the active downloads: active_downloads_data, the _data
\* of the table model, and whether they are one list object
Lists(master, data, shared) ==
  [master |-> master, data |-> IF shared THEN master ELSE data,
   shared |-> shared]

GuiLists == Lists(active_downloads_data, model_data, data_shared)

SetLists(L) ==
  /\ active_downloads_data' = L.master
  /\ model_data' = L.data
  /\ data_shared' = L.shared

\* the index of the first row of the url
FirstRow(rows, url) ==
  CHOOSE i \in 1..Len(rows) :
    /\ rows[i].url = url
    /\ \A k \in 1..(i - 1) : rows[k].url # url

\* current_data.update(new_data_dict), line 3506, and the loop of
\* DownloadTableModel.updateItem, lines 1763-1764, on the dict of the url
\* that is in active_downloads_data, as seen through a list
UpdateRow(rows, url, status) ==
  [i \in 1..Len(rows) |->
     IF rows[i].url = url /\ ~rows[i].detached
       THEN [rows[i] EXCEPT !.status = status]
       ELSE rows[i]]

\* the dict of the url leaves active_downloads_data, as seen through a list
Detach(rows, url) ==
  [i \in 1..Len(rows) |->
     IF rows[i].url = url THEN [rows[i] EXCEPT !.detached = TRUE] ELSE rows[i]]

\* DownloadTableModel.removeItem, lines 1771-1778
removeItem(rows, url) ==
  IF HasRow(rows, url)
    THEN LET i == FirstRow(rows, url)
         IN  SubSeq(rows, 1, i - 1) \o SubSeq(rows, i + 1, Len(rows))
    ELSE rows

\* DownloadTableModel.updateItem, lines 1758-1769: the dict of the first row
\* of the url in _data is updated
updateItem(L, url, status) ==
  IF ~HasRow(L.data, url)
    THEN L
    ELSE LET i == FirstRow(L.data, url) IN
         IF L.data[i].detached
           THEN Lists(L.master, [L.data EXCEPT ![i].status = status], L.shared)
           ELSE Lists(UpdateRow(L.master, url, status),
                      UpdateRow(L.data, url, status), L.shared)

\* MainWindow.filter_displayed_items, lines 3195-3246, with an empty search
\* box: the table model gets a copy of the list of the panel shown; a panel
\* without a list, and a panel of completed downloads, leave the model of
\* the active downloads alone
filter_displayed_items(L, panel) ==
  IF panel = "active_downloads"
    THEN [master |-> L.master, data |-> L.master, shared |-> FALSE]
    ELSE L

\* MainWindow.add_download_to_list, lines 3477-3490
add_download_to_list(L, panel, url) ==
  IF HasRow(L.master, url)
    THEN L
    ELSE LET appended == Lists(Append(L.master, Row(url)), L.data, L.shared)
         IN  IF panel = "active_downloads"
               THEN \* active_downloads_model.addItem(download_info)
                    IF appended.shared
                      THEN Lists(Append(appended.master, Row(url)), <<>>, TRUE)
                      ELSE Lists(appended.master,
                                 Append(appended.data, Row(url)), FALSE)
               ELSE filter_displayed_items(appended, panel)

\* lines 3529-3530 and 3561-3562: the slice assignment that drops the rows
\* of the url from active_downloads_data, then removeItem on the model
drop_rows(L, url) ==
  Lists(RowsWithout(L.master, url), removeItem(Detach(L.data, url), url),
        L.shared)

\* MainWindow.update_download_status_in_list, lines 3494-3533, but for the
\* tracker
update_download_status_in_list(L, url, status, dropped) ==
  LET updated == IF HasRow(L.master, url)
                   THEN updateItem(Lists(UpdateRow(L.master, url, status),
                                         UpdateRow(L.data, url, status),
                                         L.shared),
                                   url, status)
                   ELSE L
  IN  IF dropped THEN drop_rows(updated, url) ELSE updated

\* add_completed_download that leaves the row of the url in the active list
add_completed_download_keeps_row(L, url) == L

\* MainWindow.add_completed_download, lines 3560-3562
add_completed_download(L, url) == drop_rows(L, url)

\* MainWindow._add_process_to_tracker, lines 2955-2959
add_process_to_tracker(tracker, url, process, event) ==
  [tracker EXCEPT ![url] = [present |-> TRUE, process |-> process,
                            cancel_event |-> event]]

\* _remove_process_from_tracker that leaves the entry in the dict
remove_process_from_tracker_keeps_entry(tracker, url) == tracker

\* MainWindow._remove_process_from_tracker, lines 2962-2966
remove_process_from_tracker(tracker, url) == [tracker EXCEPT ![url] = NoEntry]

\* MainWindow._process_queue_message for 'register_process', lines 3616-3627
register_in_tracker(tracker, url, process, event) ==
  IF tracker[url].present
    THEN [tracker EXCEPT ![url].process = process,
                         ![url].cancel_event = IF @ = NoJob THEN event ELSE @]
    ELSE add_process_to_tracker(tracker, url, process, event)

\* the statuses for which update_download_status_in_list drops the job,
\* line 3522
DropStatuses == {"Failed", "Error", "Cancelled"}

\* the value of a slot variable after the consumer has taken message m: the
\* slot of m's job is free again if that was the last message of a worker
\* that has returned
Release(f, m, free) ==
  IF DrainedIn(m.job, Tail(gui_message_queue))
    THEN [f EXCEPT ![m.job] = free]
    ELSE f

\* lines 3592-3595 and 3604-3640: gui_message_queue.get_nowait() and
\* _process_queue_message for the message at the head of the queue (the slots
\* of the Qt signals run in the GUI thread, synchronously)
get_and_process_message ==
  /\ guiPc = "idle"
  /\ gui_message_queue # <<>>
  /\ LET m == Head(gui_message_queue) IN
       /\ gui_message_queue' = Tail(gui_message_queue)
       /\ CASE m.type = "add_download" ->
                 /\ SetLists(add_download_to_list(GuiLists,
                                                  current_panel_type, m.url))
                 /\ active_processes' =
                      add_process_to_tracker(active_processes, m.url, NoJob, m.job)
            [] m.type = "register_process" ->
                 /\ active_processes' =
                      register_in_tracker(active_processes, m.url, m.job, m.job)
                 /\ UNCHANGED <<active_downloads_data, model_data, data_shared>>
            [] m.type = "update_download_status" ->
                 \* update_download_status_in_list, lines 3494-3533
                 /\ SetLists(update_download_status_in_list(
                               GuiLists, m.url, m.status,
                               m.status \in DropStatuses))
                 /\ active_processes' =
                      IF m.status \in DropStatuses
                        THEN remove_process_from_tracker(active_processes, m.url)
                        ELSE active_processes
            [] m.type = "add_completed" ->
                 /\ SetLists(add_completed_download(GuiLists, m.url))
                 /\ UNCHANGED active_processes
            [] m.type = "remove_process" ->
                 /\ active_processes' =
                      remove_process_from_tracker(active_processes, m.url)
                 /\ UNCHANGED <<active_downloads_data, model_data, data_shared>>
       /\ jobUrl' = Release(jobUrl, m, EmptyUrl)
       /\ pc' = Release(pc, m, "idle")
       /\ cancel_event' = Release(cancel_event, m, FALSE)
       /\ proc' = Release(proc, m, NoProc)
       /\ stdout_line' = Release(stdout_line, m, <<>>)
       /\ error_lines' = Release(error_lines, m, <<>>)
       /\ return_code' = Release(return_code, m, NoneRc)
       /\ error_message' = Release(error_message, m, NoMessage)
       /\ emitted' = Release(emitted, m, <<>>)
       /\ cancelAtPut' = Release(cancelAtPut, m, FALSE)
       /\ cancelAtPoll' = Release(cancelAtPoll, m, FALSE)
       /\ fileAtVerify' = Release(fileAtVerify, m, "missing")
       /\ intakeAtSubmit' = Release(intakeAtSubmit, m, TRUE)
       /\ soleAtSubmit' = Release(soleAtSubmit, m, TRUE)
       /\ finishedUrls' = IF DrainedIn(m.job, Tail(gui_message_queue))
                            THEN finishedUrls \cup {m.url} ELSE finishedUrls
       /\ consumed' = Release([consumed EXCEPT ![m.job] = Append(@, EventName(m))],
                              m, <<>>)
       /\ drained' = IF DrainedIn(m.job, Tail(gui_message_queue))
                       THEN [drained EXCEPT ![m.job] =
                               [url |-> m.url,
                                status |-> terminal_status(emitted[m.job])]]
                       ELSE drained
  /\ UNCHANGED <<guiPc, guiUrl, guiSignals, current_panel_type, settings,
                 lastResp, nameVars, farVars>>

\* MainWindow.check_flask_message_queue / _process_queue_message, lines
\* 3584-3640, one message at a time, the ticks not told apart
process_queue_message ==
  /\ get_and_process_message
  /\ UNCHANGED tickVars

\* a loop test without the limit of a tick
tick_may_get_without_limit == TRUE

\* line 3590: while messages_processed < max_messages_per_cycle
tick_may_get == messages_processed < max_messages_per_cycle

\* lines 3586-3587: the QTimer fires, a tick begins
tick_start ==
  /\ tickPc = "idle"
  /\ guiPc = "idle"
  /\ tickPc' = "loop"
  /\ messages_processed' = 0
  /\ queueAtTick' = gui_message_queue
  /\ UNCHANGED <<settings, lastResp, finishedUrls, histVars, nameVars,
                 farVars, gui_message_queue, jobVars, guiVars>>

\* lines 3590-3595: one iteration of the loop of a tick
tick_get ==
  /\ tickPc = "loop"
  /\ tick_may_get
  /\ get_and_process_message
  /\ messages_processed' = messages_processed + 1
  /\ UNCHANGED <<tickPc, queueAtTick>>

\* lines 3590, 3597-3598: the loop ends at the limit or on queue.Empty
tick_end ==
  /\ tickPc = "loop"
  /\ ~tick_may_get \/ gui_message_queue = <<>>
  /\ tickPc' = "idle"
  /\ UNCHANGED <<messages_processed, queueAtTick, settings, lastResp,
                 finishedUrls, histVars, nameVars, farVars, gui_message_queue,
                 jobVars, guiVars>>

\* -------------------------------------------- the GUI thread: cancel_download
\* lines 3341-3365: a row of the url is selected, the dialog is accepted, the
\* url is tracked: step 1 sets the tracked cancel_event
cancel_set_event(url) ==
  /\ guiPc = "idle"
  /\ current_panel_type = "active_downloads"
  /\ HasRow(model_data, url)
  /\ active_processes[url].present
  /\ active_processes[url].cancel_event # NoJob
  /\ cancel_event' = [cancel_event EXCEPT ![active_processes[url].cancel_event] = TRUE]
  /\ guiPc' = "cancel_terminate"
  /\ guiUrl' = url
  /\ guiSignals' = <<"set">>
  /\ UNCHANGED <<jobUrl, pc, proc, stdout_line, error_lines, return_code,
                 error_message, emitted, cancelAtPut, cancelAtPoll,
                 fileAtVerify, intakeAtSubmit, soleAtSubmit, gui_message_queue,
                 active_downloads_data, active_processes, listVars, reqVars>>

CancelSetEvent == \E url \in AllUrls : cancel_set_event(url)

\* cancel_download that sends SIGKILL at once
cancel_terminate_by_kill ==
  /\ guiPc = "cancel_terminate"
  /\ LET p == active_processes[guiUrl].process IN
       IF p # NoJob /\ Poll(proc[p]) = NoneRc
         THEN /\ proc' = [proc EXCEPT ![p] = Kill(@)]
              /\ guiSignals' = Append(guiSignals, "SIGKILL")
              /\ guiPc' = "cancel_wait"
         ELSE /\ guiPc' = "cancel_update"
              /\ UNCHANGED <<proc, guiSignals>>
  /\ UNCHANGED <<jobUrl, pc, cancel_event, stdout_line, error_lines,
                 return_code, error_message, emitted, cancelAtPut, cancelAtPoll,
                 fileAtVerify, intakeAtSubmit, soleAtSubmit, gui_message_queue,
                 active_downloads_data, active_processes, guiUrl, listVars, reqVars>>

\* lines 3367-3377: if the tracked process is still running
\* (process_to_terminate.poll() is None): terminate()
cancel_terminate ==
  /\ guiPc = "cancel_terminate"
  /\ LET p == active_processes[guiUrl].process IN
       IF p # NoJob /\ Poll(proc[p]) = NoneRc
         THEN /\ \E dies \in BOOLEAN : proc' = [proc EXCEPT ![p] = Terminate(@, dies)]
              /\ guiSignals' = Append(guiSignals, "SIGTERM")
              /\ guiPc' = "cancel_wait"
         ELSE /\ guiPc' = "cancel_update"
              /\ UNCHANGED <<proc, guiSignals>>
  /\ UNCHANGED <<jobUrl, pc, cancel_event, stdout_line, error_lines,
                 return_code, error_message, emitted, cancelAtPut, cancelAtPoll,
                 fileAtVerify, intakeAtSubmit, soleAtSubmit, gui_message_queue,
                 active_downloads_data, active_processes, guiUrl, listVars, reqVars>>

\* lines 3378-3388: the end of wait(timeout=5): it has returned because the
\* process is over, or it raises TimeoutExpired and kill() and wait() follow
cancel_wait_kill ==
  /\ guiPc = "cancel_wait"
  /\ LET p == active_processes[guiUrl].process IN
       /\ proc' = [proc EXCEPT ![p] = Kill(@)]
       /\ guiSignals' = IF proc[p].state = "running"
                          THEN Append(guiSignals, "SIGKILL") ELSE guiSignals
  /\ guiPc' = "cancel_update"
  /\ UNCHANGED <<jobUrl, pc, cancel_event, stdout_line, error_lines,
                 return_code, error_message, emitted, cancelAtPut, cancelAtPoll,
                 fileAtVerify, intakeAtSubmit, soleAtSubmit, gui_message_queue,
                 active_downloads_data, active_processes, guiUrl, listVars, reqVars>>

\* lines 3392-3394: the row shows 'Cancelling...'
cancel_update_status ==
  /\ guiPc = "cancel_update"
  /\ SetLists(updateItem(GuiLists, guiUrl, "Cancelling..."))
  /\ guiPc' = "idle"
  /\ guiUrl' = EmptyUrl
  /\ guiSignals' = <<>>
  /\ UNCHANGED <<jobVars, gui_message_queue, active_processes,
                 current_panel_type, reqVars>>

\* -------------------------------------------------------- specifications
Worker(j) ==
  \/ predict_filename(j)
  \/ popen(j)
  \/ loop_check_cancel(j)
  \/ read_stdout(j)
  \/ read_stderr(j)
  \/ poll_return_code(j)
  \/ handle_cancel(j)
  \/ handle_return_code(j)
  \/ put_add_completed(j)
  \/ except_handler(j)
  \/ finally_remove_process(j)

CancelDownload ==
  \/ CancelSetEvent
  \/ cancel_terminate
  \/ cancel_wait_kill
  \/ cancel_update_status

\* a client that sends a request only when no job is live; the tool prints
\* on both streams
Next ==
  \/ DownloadNoUrl
  \/ DownloadWhenIdle
  \/ \E j \in Jobs : Worker(j)
  \/ \E j \in Jobs : ProcWriteOut(j)
  \/ \E j \in Jobs : ProcWriteErr(j)
  \/ \E j \in Jobs : ProcExit(j)
  \/ process_queue_message
  \/ CancelDownload

Spec == Init /\ [][Next]_vars

\* a client that sends the same request again at any time, and the intake
\* switch, while the tool of every started job keeps running silently: the
\* workers get as far as the read loop, or fail before it
ResendNext ==
  \/ DownloadAgain
  \/ SetBrowserMonitorStatus
  \/ \E j \in Jobs : predict_filename(j)
  \/ \E j \in Jobs : popen(j)
  \/ \E j \in Jobs : except_handler(j)
  \/ \E j \in Jobs : finally_remove_process(j)
  \/ process_queue_message

ResendSpec == Init /\ [][ResendNext]_vars

\* The collision loop of one single-item job, lines 614-627, for every
\* content of download_dir and both values of overwrite_existing_file
CollisionInit ==
  /\ \E o \in BOOLEAN :
       settings = [browser_monitor_enabled |-> TRUE, overwrite_existing_file |-> o]
  /\ InitOrchestrator
  /\ download_dir \in SUBSET DirFiles
  /\ counter = 0
  /\ current_filename = Filename(base_name, 0, ext)
  /\ namePc = "loop"
  /\ InitTick
  /\ InitFar

CollisionNext ==
  \/ collision_loop_step
  \/ collision_loop_exit

CollisionSpec == CollisionInit /\ [][CollisionNext]_vars

\* the i-th progress event of a job: 'Downloading' with its percentage
ProgressMsg(url, j, i) ==
  StatusMsg(url, j, [status |-> "Downloading", progress |-> <<i, 0>>])

\* The polling ticks of the consumer, lines 3584-3602, while the GUI thread
\* has been kept busy: the worker of one job is in its read loop and has
\* queued its first three events and up to MaxQueued progress events, and
\* goes on reading the tool's output while the consumer ticks
TickInit ==
  /\ settings = [browser_monitor_enabled |-> TRUE,
                 overwrite_existing_file |-> FALSE]
  /\ InitNaming
  /\ InitTick
  /\ InitFar
  /\ \E n \in 0..MaxQueued :
       /\ gui_message_queue =
            <<Msg("add_download", "watch?v=1", 1, "", NoMessage),
              Msg("update_download_status", "watch?v=1", 1, "Initializing",
                  NoMessage),
              Msg("register_process", "watch?v=1", 1, "", NoMessage)>>
            \o [i \in 1..n |-> ProgressMsg("watch?v=1", 1, i)]
       /\ emitted = [j \in Jobs |->
                       IF j = 1
                         THEN <<"add_download", "Initializing", "register_process">>
                              \o [i \in 1..n |-> "Downloading"]
                         ELSE <<>>]
       /\ proc = [j \in Jobs |->
                    IF j = 1
                      THEN [NoProc EXCEPT !.state = "running", !.part = n > 0]
                      ELSE NoProc]
  /\ jobUrl = [j \in Jobs |-> IF j = 1 THEN "watch?v=1" ELSE EmptyUrl]
  /\ pc = [j \in Jobs |-> IF j = 1 THEN "loop" ELSE "idle"]
  /\ cancel_event = [j \in Jobs |-> FALSE]
  /\ stdout_line = [j \in Jobs |-> <<>>]
  /\ error_lines = [j \in Jobs |-> <<>>]
  /\ return_code = [j \in Jobs |-> NoneRc]
  /\ error_message = [j \in Jobs |-> NoMessage]
  /\ active_downloads_data = <<>>
  /\ active_processes = [u \in AllUrls |-> NoEntry]
  /\ guiPc = "idle"
  /\ guiUrl = EmptyUrl
  /\ guiSignals = <<>>
  /\ InitLists
  /\ lastResp = 200
  /\ cancelAtPut = [j \in Jobs |-> FALSE]
  /\ cancelAtPoll = [j \in Jobs |-> FALSE]
  /\ fileAtVerify = [j \in Jobs |-> "missing"]
  /\ intakeAtSubmit = [j \in Jobs |-> TRUE]
  /\ soleAtSubmit = [j \in Jobs |-> TRUE]
  /\ finishedUrls = {}
  /\ consumed = [j \in Jobs |-> <<>>]
  /\ drained = [j \in Jobs |-> NoDrained]

\* MainWindow.closeEvent, lines 2983-3010, on POSIX: for every entry of
\* active_processes the cancel_event is set, a process that still runs gets
\* SIGTERM and, if it is not over within a second, SIGKILL; then the
\* application ends, and its daemon threads with it
close_event ==
  /\ ~closed
  /\ guiPc = "idle"
  /\ LET tracked == {u \in AllUrls : active_processes[u].present}
         events == {active_processes[u].cancel_event : u \in tracked} \ {NoJob}
         procs == {j \in {active_processes[u].process : u \in tracked} \ {NoJob} :
                     Poll(proc[j]) = NoneRc}
     IN  /\ cancel_event' = [j \in Jobs |-> cancel_event[j] \/ j \in events]
         /\ \E dying \in SUBSET procs :
              proc' = [j \in Jobs |->
                         IF j \in procs
                           THEN Kill(Terminate(proc[j], j \in dying))
                           ELSE proc[j]]
  /\ closed' = TRUE
  /\ UNCHANGED <<settings, gui_message_queue, jobUrl, pc, stdout_line,
                 error_lines, return_code, error_message, emitted, cancelAtPut,
                 cancelAtPoll, fileAtVerify, intakeAtSubmit, soleAtSubmit,
                 guiVars, lastResp, finishedUrls, histVars, nameVars, tickVars,
                 ytVars, cookie_files>>

\* MainWindow.refresh_current_view, lines 3411-3413 (the search box, whose
\* textChanged signal is connected to filter_displayed_items at line 1370,
\* is left empty)
refresh_current_view ==
  /\ guiPc = "idle"
  /\ SetLists(filter_displayed_items(GuiLists, current_panel_type))
  /\ UNCHANGED <<settings, gui_message_queue, jobVars, active_processes, guiPc,
                 guiUrl, guiSignals, current_panel_type, lastResp,
                 finishedUrls, histVars, nameVars, tickVars, farVars>>

\* the panels: the active downloads, and one without a list of its own
Panels == {"active_downloads", "settings"}

\* MainWindow.show_panel, lines 3102-3194: the model's sort is in place and
\* no list is filtered
show_panel(panel) ==
  /\ guiPc = "idle"
  /\ current_panel_type # panel
  /\ current_panel_type' = panel
  /\ UNCHANGED <<settings, gui_message_queue, jobVars, active_downloads_data,
                 active_processes, guiPc, guiUrl, guiSignals, model_data,
                 data_shared, lastResp, finishedUrls, histVars, nameVars,
                 tickVars, farVars>>

ShowPanel == \E panel \in Panels : show_panel(panel)

\* The two lists of the active downloads under the user's hands: jobs come
\* one after the other, the tool prints nothing and ends by itself, nothing
\* is cancelled, and the user switches panels and refreshes the view
ListNext ==
  \/ DownloadWhenIdle
  \/ \E j \in Jobs : predict_filename(j)
  \/ \E j \in Jobs : popen(j)
  \/ \E j \in Jobs : loop_check_cancel(j)
  \/ \E j \in Jobs : read_stdout(j)
  \/ \E j \in Jobs : read_stderr(j)
  \/ \E j \in Jobs : poll_return_code(j)
  \/ \E j \in Jobs : handle_cancel(j)
  \/ \E j \in Jobs : handle_return_code(j)
  \/ \E j \in Jobs : put_add_completed(j)
  \/ \E j \in Jobs : except_handler(j)
  \/ \E j \in Jobs : finally_remove_process(j)
  \/ \E j \in Jobs : ProcExit(j)
  \/ process_queue_message
  \/ refresh_current_view
  \/ ShowPanel

ListSpec == Init /\ [][ListNext]_vars

\* The parsing of one stdout line, lines 671-683: the worker of a job whose
\* first events have been consumed has read a line, any line, from stdout
\* and is about to read the line the tool has written on stderr
ParseInit ==
  /\ settings = [browser_monitor_enabled |-> TRUE,
                 overwrite_existing_file |-> FALSE]
  /\ InitNaming
  /\ InitTick
  /\ InitFar
  /\ gui_message_queue = <<>>
  /\ stdout_line \in {[j \in Jobs |-> IF j = 1 THEN line ELSE <<>>] : line \in Lines}
  /\ proc = [j \in Jobs |->
               IF j = 1
                 THEN [NoProc EXCEPT !.state = "running", !.err = <<"WARNING">>,
                                     !.nOut = 1, !.nErr = 1]
                 ELSE NoProc]
  /\ emitted = [j \in Jobs |->
                  IF j = 1
                    THEN <<"add_download", "Initializing", "register_process">>
                    ELSE <<>>]
  /\ consumed = emitted
  /\ jobUrl = [j \in Jobs |-> IF j = 1 THEN "watch?v=1" ELSE EmptyUrl]
  /\ pc = [j \in Jobs |-> IF j = 1 THEN "read_stderr" ELSE "idle"]
  /\ cancel_event = [j \in Jobs |-> FALSE]
  /\ error_lines = [j \in Jobs |-> <<>>]
  /\ return_code = [j \in Jobs |-> NoneRc]
  /\ error_message = [j \in Jobs |-> NoMessage]
  /\ active_downloads_data =
       <<[Row("watch?v=1") EXCEPT !.status = "Initializing"],
         [Row("watch?v=1") EXCEPT !.status = "Initializing"]>>
  /\ model_data = active_downloads_data
  /\ data_shared = TRUE
  /\ current_panel_type = "active_downloads"
  /\ active_processes =
       [u \in AllUrls |-> IF u = "watch?v=1"
                         THEN [present |-> TRUE, process |-> 1, cancel_event |-> 1]
                         ELSE NoEntry]
  /\ guiPc = "idle"
  /\ guiUrl = EmptyUrl
  /\ guiSignals = <<>>
  /\ lastResp = 200
  /\ cancelAtPut = [j \in Jobs |-> FALSE]
  /\ cancelAtPoll = [j \in Jobs |-> FALSE]
  /\ fileAtVerify = [j \in Jobs |-> "missing"]
  /\ intakeAtSubmit = [j \in Jobs |-> TRUE]
  /\ soleAtSubmit = [j \in Jobs |-> TRUE]
  /\ finishedUrls = {}
  /\ drained = [j \in Jobs |-> NoDrained]

ParseNext == \E j \in Jobs : read_stderr(j)

ParseSpec == ParseInit /\ [][ParseNext]_vars

TickNext ==
  \/ tick_start
  \/ tick_get
  \/ tick_end
  \/ \E j \in Jobs : ProcWriteOut(j)
  \/ \E j \in Jobs : ProcWriteErr(j)
  \/ \E j \in Jobs : loop_check_cancel(j)
  \/ \E j \in Jobs : read_stdout(j)
  \/ \E j \in Jobs : read_stderr(j)

TickSpec == TickInit /\ [][TickNext]_vars

\* ------------------------------------------------- run_yt_dlp_command
\* SettingsManager: 'use_fallback_methods': True, never set again
use_fallback_methods == TRUE

\* get_formats, lines 826-831: the args of the two approaches
FormatArgs == {"--list-formats", "--dump-json"}

\* what the tool writes on stderr when it fails, word by word: nothing, a
\* private video, an unsupported site, a malformed url, region-blocked
\* content, a refused request, a lost connection
StderrTexts ==
  {<<>>,
   <<"ERROR:", "Private", "video">>,
   <<"ERROR:", "Unsupported", "URL">>,
   <<"ERROR:", "is", "not", "a", "valid", "URL">>,
   <<"ERROR:", "not", "available", "in", "your", "country">>,
   <<"ERROR:", "HTTP", "Error", "403", "Forbidden">>,
   <<"ERROR:", "Connection", "reset">>}

\* the results of subprocess.run(check=False)
ToolResults ==
  {[returncode |-> 0, stderr |-> <<>>]}
    \cup {[returncode |-> 1, stderr |-> t] : t \in StderrTexts}

\* str.lower() of a word
lower(word) ==
  CASE word = "ERROR:" -> "error:"
    [] word = "Private" -> "private"
    [] word = "Unsupported" -> "unsupported"
    [] word = "URL" -> "url"
    [] word = "HTTP" -> "http"
    [] word = "Error" -> "error"
    [] word = "Forbidden" -> "forbidden"
    [] word = "Connection" -> "connection"
    [] OTHER -> word

\* line 436: result.stderr.lower() if result.stderr else ""
error_msg == [i \in 1..Len(result.stderr) |-> lower(result.stderr[i])]

\* lines 442-445: the phrases that ask for a retry, word by word
RetryPhrases ==
  {<<"403">>, <<"forbidden">>, <<"unauthorized">>, <<"private">>,
   <<"requires", "login">>, <<"unable", "to", "download">>,
   <<"http", "error">>, <<"connection">>, <<"timeout">>}

\* error_phrase in error_msg, on words
Contains(text, phrase) ==
  \E i \in 1..(Len(text) - Len(phrase) + 1) :
    SubSeq(text, i, i + Len(phrase) - 1) = phrase

\* a retry test that does not look at retry_count
should_retry_without_limit ==
  /\ use_fallback_methods
  /\ \E error_phrase \in RetryPhrases : Contains(error_msg, error_phrase)

\* lines 439-446, with max_retries = settings.get('retry_attempts')
should_retry ==
  /\ retry_count < retry_attempts
  /\ use_fallback_methods
  /\ \E error_phrase \in RetryPhrases : Contains(error_msg, error_phrase)

\* no file: temp_cookie_file_path is None
NoFile == [owner |-> "none", n |-> 0]

\* the file tempfile.mkstemp makes for the frame of depth retry_count
YtCookieFile(depth) == [owner |-> "run_yt_dlp_command", n |-> depth]

\* what run_yt_dlp_command leaves alone
nonYtVars == <<settings, gui_message_queue, jobVars, guiVars, lastResp,
               finishedUrls, histVars, nameVars, tickVars, closed>>

\* get_formats, lines 835-840: run_yt_dlp_command is called with
\* retry_count = 0
yt_call(a, c) ==
  /\ ytPc = "none"
  /\ ytPc' = "cookies"
  /\ args' = a
  /\ cookies' = c
  /\ retry_count' = 0
  /\ temp_cookie_file_path' = <<NoFile>>
  /\ result' = NoResult
  /\ returned' = ""
  /\ invocations' = 0
  /\ invoked_args' = <<>>
  /\ delays' = <<>>
  /\ UNCHANGED <<nonYtVars, cookie_files>>

YtCall == \E a \in FormatArgs, c \in BOOLEAN : yt_call(a, c)

\* lines 383-410: the cookie file of this frame is made and written; when
\* the write fails the handler unlinks the file and raises
yt_write_cookies ==
  /\ ytPc = "cookies"
  /\ IF cookies
       THEN /\ temp_cookie_file_path' =
                 [temp_cookie_file_path EXCEPT ![Len(temp_cookie_file_path)] =
                    YtCookieFile(retry_count)]
            /\ \/ /\ cookie_files' = cookie_files \cup {YtCookieFile(retry_count)}
                  /\ ytPc' = "run"
                  /\ UNCHANGED returned
               \/ /\ cookie_files' = cookie_files \ {YtCookieFile(retry_count)}
                  /\ ytPc' = "finally"
                  /\ returned' = "raised"
       ELSE /\ ytPc' = "run"
            /\ UNCHANGED <<temp_cookie_file_path, cookie_files, returned>>
  /\ UNCHANGED <<nonYtVars, args, cookies, retry_count, result, invocations,
                 invoked_args, delays>>

\* lines 424-432 and 466-473: subprocess.run returns the result of the tool,
\* or raises FileNotFoundError or TimeoutExpired, which this frame catches
yt_subprocess_run ==
  /\ ytPc = "run"
  /\ invocations < MaxInvocations
  /\ invocations' = invocations + 1
  /\ invoked_args' = Append(invoked_args, args)
  /\ \/ /\ \E r \in ToolResults : result' = r
        /\ ytPc' = "check"
        /\ UNCHANGED returned
     \/ /\ \E e \in {"FileNotFoundError", "TimeoutExpired"} : returned' = "None"
        /\ ytPc' = "finally"
        /\ UNCHANGED result
  /\ UNCHANGED <<nonYtVars, cookie_files, args, cookies, retry_count,
                 temp_cookie_file_path, delays>>

\* lines 435-464: the retry (sleep, then the recursive call with a copy of
\* args and retry_count + 1) or the return of this frame
yt_handle_result ==
  /\ ytPc = "check"
  /\ IF result.returncode # 0 /\ should_retry
       THEN /\ delays' = Append(delays, 2 ^ retry_count)
            /\ retry_count' = retry_count + 1
            /\ temp_cookie_file_path' = Append(temp_cookie_file_path, NoFile)
            /\ ytPc' = "cookies"
            /\ UNCHANGED returned
       ELSE /\ returned' = IF result.returncode # 0 THEN "None" ELSE "stdout"
            /\ ytPc' = "finally"
            /\ UNCHANGED <<delays, retry_count, temp_cookie_file_path>>
  /\ UNCHANGED <<nonYtVars, cookie_files, args, cookies, result, invocations,
                 invoked_args>>

\* a finally clause that leaves the cookie file of the frame
yt_finally_keeps_file ==
  /\ ytPc = "finally"
  /\ temp_cookie_file_path' =
       SubSeq(temp_cookie_file_path, 1, Len(temp_cookie_file_path) - 1)
  /\ IF Len(temp_cookie_file_path) = 1
       THEN ytPc' = "over" /\ UNCHANGED retry_count
       ELSE ytPc' = "finally" /\ retry_count' = retry_count - 1
  /\ UNCHANGED <<nonYtVars, cookie_files, args, cookies, result, returned,
                 invocations, invoked_args, delays>>

\* lines 474-480: the finally clause of the innermost frame unlinks its
\* cookie file; the frame returns to its caller (line 456) or the call is over
yt_finally ==
  /\ ytPc = "finally"
  /\ cookie_files' =
       cookie_files \ {temp_cookie_file_path[Len(temp_cookie_file_path)]}
  /\ temp_cookie_file_path' =
       SubSeq(temp_cookie_file_path, 1, Len(temp_cookie_file_path) - 1)
  /\ IF Len(temp_cookie_file_path) = 1
       THEN ytPc' = "over" /\ UNCHANGED retry_count
       ELSE ytPc' = "finally" /\ retry_count' = retry_count - 1
  /\ UNCHANGED <<nonYtVars, args, cookies, result, returned, invocations,
                 invoked_args, delays>>

\* get_formats, lines 840-860: the caller goes on with what the call returned
yt_caller_goes_on ==
  /\ ytPc = "over"
  /\ ytPc' = "none"
  /\ args' = ""
  /\ cookies' = FALSE
  /\ retry_count' = 0
  /\ temp_cookie_file_path' = <<>>
  /\ result' = NoResult
  /\ returned' = ""
  /\ invocations' = 0
  /\ invoked_args' = <<>>
  /\ delays' = <<>>
  /\ UNCHANGED <<nonYtVars, cookie_files>>

\* the steps of run_yt_dlp_command itself
RunYtDlpCommand ==
  \/ yt_write_cookies
  \/ yt_subprocess_run
  \/ yt_handle_result
  \/ yt_finally

\* Calls of run_yt_dlp_command, one after the other, for every behaviour of
\* the tool; the function's own steps keep running, and subprocess.run ends
\* (get_formats passes timeout=60)
RetryNext ==
  \/ YtCall
  \/ RunYtDlpCommand
  \/ yt_caller_goes_on

RetrySpec == Init /\ [][RetryNext]_vars /\ WF_vars(RunYtDlpCommand)

\* A session of one download: the extension asks for the formats, then sends
\* the download of a url that needs cookies; the window is closed at any
\* time, and nothing runs after that
SessionNext ==
  \/ /\ ~closed
     /\ lastResp = 0
     /\ \/ YtCall
        \/ RunYtDlpCommand
        \/ yt_caller_goes_on
  \/ /\ ~closed
     /\ lastResp = 0
     /\ ytPc = "none"
     /\ \E url \in CookieUrls : download(url)
  \/ /\ ~closed
     /\ \/ \E j \in Jobs : Worker(j)
        \/ \E j \in Jobs : ProcWriteOut(j)
        \/ \E j \in Jobs : ProcWriteErr(j)
        \/ \E j \in Jobs : ProcExit(j)
        \/ process_queue_message
        \/ CancelDownload
  \/ close_event

SessionSpec == Init /\ [][SessionNext]_vars

\* Fair scheduling of the threads of the program: every worker thread and the
\* GUI thread keep running.  Nothing is assumed of the external tool, of the
\* HTTP client or of the user.
Fairness ==
  /\ \A j \in Jobs : WF_vars(Worker(j))
  /\ WF_vars(process_queue_message)
  /\ WF_vars(cancel_terminate \/ cancel_wait_kill \/ cancel_update_status)

FairSpec == Spec /\ Fairness

TypeOK ==
  /\ pc \in [Jobs -> {"idle", "start", "popen", "loop", "read_stdout",
                      "read_stderr", "poll", "handle_cancel",
                      "handle_return_code", "add_completed", "except",
                      "finally", "done"}]
  /\ guiPc \in {"idle", "cancel_terminate", "cancel_wait", "cancel_update"}
  /\ cancel_event \in [Jobs -> BOOLEAN]
  /\ \A j \in Jobs : proc[j].state \in {"none", "running", "exited"}
  /\ lastResp \in {0, 200, 400}

\* ------------------------------------------------------------- properties
\* positions of the terminal statuses among the messages a worker has put
TerminalsOf(j) ==
  {i \in 1..Len(emitted[j]) : emitted[j][i] \in TerminalStatuses}

\* the consumer has taken the job's 'add_download'
AddDownloadConsumed(j) ==
  /\ Live(j)
  /\ ~\E i \in 1..Len(gui_message_queue) :
        /\ gui_message_queue[i].job = j
        /\ gui_message_queue[i].type = "add_download"

\* the consumer has taken the job's terminal status
TerminalConsumed(j) ==
  /\ TerminalsOf(j) # {}
  /\ ~\E i \in 1..Len(gui_message_queue) :
        /\ gui_message_queue[i].job = j
        /\ gui_message_queue[i].type = "update_download_status"
        /\ gui_message_queue[i].status \in TerminalStatuses

\* C1 (as stated): every worker puts exactly one terminal status, and that
\* status is the last message the worker puts.
C1_TerminalIsLastEvent ==
  \A j \in Jobs :
    /\ Cardinality(TerminalsOf(j)) <= 1
    /\ pc[j] = "done" => Cardinality(TerminalsOf(j)) = 1
    /\ \A i \in TerminalsOf(j) : i = Len(emitted[j])

\* C1 (amended): every worker puts exactly one terminal status; after it the
\* worker puts no status update any more, only 'add_completed' (after
\* Completed) and 'remove_process'.
C1_OneTerminalThenBookkeeping ==
  \A j \in Jobs :
    /\ Cardinality(TerminalsOf(j)) <= 1
    /\ pc[j] = "done" => Cardinality(TerminalsOf(j)) = 1
    /\ \A i \in TerminalsOf(j) : \A k \in (i + 1)..Len(emitted[j]) :
         /\ emitted[j][k] \in {"add_completed", "remove_process"}
         /\ emitted[j][k] = "add_completed" => emitted[j][i] = "Completed"

\* a worker has returned after a run with progress events and Completed
C1_Witness ==
  \E j \in Jobs :
    /\ pc[j] = "done"
    /\ \E i \in TerminalsOf(j) : emitted[j][i] = "Completed" /\ i < Len(emitted[j])
    /\ \E i \in 1..Len(emitted[j]) : emitted[j][i] = "Downloading"

\* C2: if the job's cancel_event is set before the worker puts its terminal
\* status, that terminal status is not Completed.  (Cancelled, or Failed when
\* the cancellation races with a hard failure, which section 3 of the spec
\* allows.)
C2_CancelBeforeTerminalWins ==
  \A j \in Jobs : \A i \in TerminalsOf(j) :
    cancelAtPut[j] => emitted[j][i] # "Completed"

\* C3: once a job's cancel_event is set, its worker eventually puts a
\* terminal status.
C3_CancelLeadsToTerminal ==
  \A j \in Jobs : cancel_event[j] ~> (TerminalsOf(j) # {})

\* C4: if the cancel_event is set when the worker reads a non-zero return
\* code of the exited tool, the worker never puts Failed (nor Completed), and
\* once past the handling it has put Cancelled.
C4_CancelledNotFailed ==
  \A j \in Jobs :
    (cancelAtPoll[j] /\ return_code[j] \notin {0, NoneRc}) =>
      /\ \A i \in TerminalsOf(j) : emitted[j][i] = "Cancelled"
      /\ pc[j] \in {"finally", "done"} => TerminalsOf(j) # {}

\* the tool has exited with code 1 under a set cancel_event, and the worker
\* has returned after Cancelled
C4_Witness ==
  \E j \in Jobs :
    /\ cancelAtPoll[j]
    /\ return_code[j] = 1
    /\ pc[j] = "done"
    /\ \E i \in TerminalsOf(j) : emitted[j][i] = "Cancelled"

\* C5: if the cancel_event is not set, a non-zero return code makes the
\* terminal status Failed, with the last TailLen stderr lines as its message.
C5_NonZeroExitFails ==
  \A j \in Jobs : \A i \in TerminalsOf(j) :
    (~cancelAtPut[j] /\ return_code[j] \notin {0, NoneRc}) =>
      /\ emitted[j][i] = "Failed"
      /\ error_message[j] = [kind |-> "exit", rc |-> return_code[j],
                             tail |-> LastN(error_lines[j], TailLen)]

\* C6: no url has two jobs whose workers are running: a request for a url
\* that has a running job starts no second worker.
C6_DuplicateRejected ==
  \A j, k \in Jobs :
    (j # k /\ pc[j] \notin {"idle", "done"} /\ pc[k] \notin {"idle", "done"})
      => jobUrl[j] # jobUrl[k]

\* C7: a job accepted when no other job of its url was live (the jobs of the
\* url that came before are over), and not joined by another job of the url
\* since, is an active job from the consumption of its 'add_download' to the
\* consumption of its terminal status: the url has a row with a non-terminal
\* status and a tracker entry with the job's own cancel_event.
C7_ResubmissionTracked ==
  \A j \in Jobs :
    ( /\ soleAtSubmit[j]
      /\ AddDownloadConsumed(j)
      /\ ~TerminalConsumed(j) ) =>
        /\ \E i \in 1..Len(active_downloads_data) :
             /\ active_downloads_data[i].url = jobUrl[j]
             /\ active_downloads_data[i].status \notin TerminalStatuses
        /\ active_processes[jobUrl[j]].present
        /\ active_processes[jobUrl[j]].cancel_event = j

\* a url whose earlier job is over has been accepted again and is tracked
C7_Witness ==
  \E j \in Jobs :
    /\ jobUrl[j] \in finishedUrls
    /\ AddDownloadConsumed(j)
    /\ ~TerminalConsumed(j)
    /\ HasRow(active_downloads_data, jobUrl[j])
    /\ active_processes[jobUrl[j]].cancel_event = j

\* C8: a request without url is answered 400 and does nothing else: no job
\* and no message ever has an empty url, and the step that answers 400 leaves
\* the queue, the workers and the processes as they are.
C8_EmptyUrlRejected ==
  /\ [](/\ \A j \in Jobs : Live(j) => jobUrl[j] # EmptyUrl
        /\ \A i \in 1..Len(gui_message_queue) : gui_message_queue[i].url # EmptyUrl)
  /\ [][(lastResp' = 400 /\ lastResp # 400) =>
          UNCHANGED <<gui_message_queue, jobVars, guiVars>>]_vars

\* a request has been answered 400 while a job was running
C8_Witness ==
  /\ lastResp = 400
  /\ \E j \in Jobs : proc[j].state = "running"

\* C9: no job is accepted while browser_monitor_enabled is false.
C9_NoIntakeWhileDisabled ==
  \A j \in Jobs : Live(j) => intakeAtSubmit[j]

\* C10: for a single-item job whose tool exited with code 0 and that was not
\* cancelled, the terminal status is Completed exactly if the output file
\* exists with a non-zero size, and Failed otherwise.
C10_CompletedOnlyIfNonEmpty ==
  \A j \in Jobs : \A i \in TerminalsOf(j) :
    (~is_playlist(jobUrl[j]) /\ return_code[j] = 0 /\ emitted[j][i] # "Cancelled") =>
      /\ emitted[j][i] = "Completed" <=> fileAtVerify[j] = "full"
      /\ emitted[j][i] \in {"Completed", "Failed"}

\* C11: for a playlist job whose tool exited with code 0 and that was not
\* cancelled, the terminal status is Completed exactly if the playlist
\* directory exists and the files in it have a non-zero total size, and Failed
\* otherwise.  (For a playlist "empty" is the directory of line 588 with
\* nothing of non-zero size in it.)
C11_PlaylistCompletedOnlyIfNonEmpty ==
  \A j \in Jobs : \A i \in TerminalsOf(j) :
    (is_playlist(jobUrl[j]) /\ return_code[j] = 0 /\ emitted[j][i] # "Cancelled") =>
      /\ emitted[j][i] = "Completed" <=> fileAtVerify[j] = "full"
      /\ emitted[j][i] \in {"Completed", "Failed"}

\* C12: once cancel_download has returned and the worker of the cancelled job
\* has returned, the tool of that job is not running any more.
C12_ProcessDeadAfterCancel ==
  \A j \in Jobs :
    (cancel_event[j] /\ guiPc = "idle" /\ pc[j] = "done") =>
      proc[j].state # "running"

\* C13: when a worker has returned after Failed or Cancelled, no partial
\* output file of its tool is left in download_dir.
C13_NoPartialFilesLeft ==
  \A j \in Jobs : \A i \in TerminalsOf(j) :
    (pc[j] = "done" /\ emitted[j][i] \in {"Failed", "Cancelled"}) =>
      ~proc[j].part

\* the events of job j that are in the queue, oldest first
QueuedEvents(j) ==
  LET q == SelectSeq(gui_message_queue, LAMBDA m : m.job = j)
  IN  [i \in 1..Len(q) |-> EventName(q[i])]

C15_DrainedJobNotActive ==
  \A j \in Jobs :
    ( /\ drained[j].status \in TerminalStatuses
      /\ \A k \in Jobs : Live(k) => jobUrl[k] # drained[j].url ) =>
        /\ ~HasRow(active_downloads_data, drained[j].url)
        /\ ~active_processes[drained[j].url].present

\* every event of a cancelled job has been consumed
C15_Witness ==
  \E j \in Jobs :
    /\ drained[j].status = "Cancelled"
    /\ \A k \in Jobs : ~Live(k)
    /\ active_downloads_data = <<>>

\* the status shown for a url: that of its first row, "" without a row
RowStatus(rows, url) ==
  IF HasRow(rows, url)
    THEN rows[CHOOSE i \in 1..Len(rows) :
                /\ rows[i].url = url
                /\ \A k \in 1..(i - 1) : rows[k].url # url].status
    ELSE ""

\* C16: the status of a row never moves backwards: a terminal status is
\* never replaced, and 'Cancelling...' is never replaced by Initializing,
\* Downloading or Processing.
C16_StatusMovesForward ==
  [][\A url \in Urls :
       LET old == RowStatus(active_downloads_data, url)
           new == RowStatus(active_downloads_data', url)
       IN  new # "" =>
             /\ old \in TerminalStatuses => new = old
             /\ old = "Cancelling..." =>
                  new \notin {"Initializing", "Downloading", "Processing"}]_vars

\* C17: the events of a single-item job that ends Completed show the phases
\* DownloadingVideo, DownloadingAudio and Merging, in this order, before
\* Completed.  (A 'Processing' event counts as the merging phase.)
C17_MergePhasesInOrder ==
  \A j \in Jobs : \A t \in TerminalsOf(j) :
    (~is_playlist(jobUrl[j]) /\ emitted[j][t] = "Completed") =>
      \E v, a, m \in 1..(t - 1) :
        /\ v < a /\ a < m
        /\ emitted[j][v] = "DownloadingVideo"
        /\ emitted[j][a] = "DownloadingAudio"
        /\ emitted[j][m] \in {"Merging", "Processing"}

\* a progress line of the tool that the worker has not turned into an event
\* yet: it is in the stdout pipe, or read and waiting for stderr.readline()
PendingProgress(j) ==
  \/ \E i \in 1..Len(proc[j].out) :
       ParseLine(proc[j].out[i]).status = "Downloading"
  \/ pc[j] = "read_stderr" /\ ParseLine(stdout_line[j]).status = "Downloading"

\* C18: a progress line the tool has written is eventually turned into an
\* event while the tool is running (unless the tool exits or the job is
\* cancelled first), whatever the tool does on stderr.
C18_ProgressIsStreamed ==
  \A j \in Jobs :
    PendingProgress(j) ~>
      (~PendingProgress(j) \/ proc[j].state # "running" \/ cancel_event[j])

\* C19: no job ends Failed because the metadata run of the filename
\* prediction timed out.
C19_PredictionIsBestEffort ==
  \A j \in Jobs : \A i \in TerminalsOf(j) :
    emitted[j][i] = "Failed" => error_message[j].kind # "TimeoutExpired"

\* C20: with overwrite_existing_file false, the name the collision loop ends
\* with is base_name + ext if no such file is in download_dir, otherwise
\* "base_name (k)ext" for the smallest k >= 1 that is the name of no file
\* there; it is never the name of a file in download_dir.
C20_CollisionFreeName ==
  (namePc = "chosen" /\ ~settings.overwrite_existing_file) =>
    /\ current_filename = Filename(base_name, counter, ext)
    /\ current_filename \notin download_dir
    /\ \A k \in 0..(counter - 1) : Filename(base_name, k, ext) \in download_dir

\* the predicted name and its first variant exist, "base_name (2)ext" is chosen
C20_Witness ==
  /\ namePc = "chosen"
  /\ ~settings.overwrite_existing_file
  /\ Filename(base_name, 0, ext) \in download_dir
  /\ counter = 2
  /\ current_filename = <<"video", <<2>>, ".mp4">>

\* C21: with overwrite_existing_file true, the name the collision loop ends
\* with is the predicted name base_name + ext, whatever is in download_dir.
C21_OverwriteKeepsPredictedName ==
  (namePc = "chosen" /\ settings.overwrite_existing_file) =>
    /\ counter = 0
    /\ current_filename = <<"video", <<>>, ".mp4">>

\* the predicted name and its first variant exist, and the predicted name is
\* chosen all the same
C21_Witness ==
  /\ namePc = "chosen"
  /\ settings.overwrite_existing_file
  /\ {Filename(base_name, 0, ext), Filename(base_name, 1, ext)} \subseteq download_dir
  /\ current_filename = Filename(base_name, 0, ext)

\* C22: cancel_download sets the cancel_event first, sends SIGTERM next and
\* only to a process that is running, and sends SIGKILL only after SIGTERM and
\* the wait, and only to a process that is still running then.
C22_CancelProtocolOrder ==
  /\ [](guiSignals \in {<<>>, <<"set">>, <<"set", "SIGTERM">>,
                        <<"set", "SIGTERM", "SIGKILL">>})
  /\ [][Len(guiSignals') > Len(guiSignals) =>
          IF guiSignals = <<>>
            THEN cancel_event'[active_processes[guiUrl'].cancel_event]
            ELSE /\ cancel_event[active_processes[guiUrl].cancel_event]
                 /\ proc[active_processes[guiUrl].process].state = "running"]_vars

\* the tool has handled SIGTERM and gone on, and SIGKILL has ended it
C22_Witness ==
  /\ guiSignals = <<"set", "SIGTERM", "SIGKILL">>
  /\ proc[active_processes[guiUrl].process].rc = SIGKILL_RC

\* C23: a tick of the consumer removes at most max_messages_per_cycle
\* messages; the messages of the queue it has not removed are still at the
\* head of the queue, in their order, whatever the workers have appended
\* since; and a tick that ends on an empty queue removes nothing there
C23_TickRemovesAtMostTen ==
  /\ [](/\ messages_processed <= 10
        /\ LET rest == Len(queueAtTick) - messages_processed
           IN  rest > 0 =>
                 /\ Len(gui_message_queue) >= rest
                 /\ SubSeq(gui_message_queue, 1, rest) =
                      SubSeq(queueAtTick, messages_processed + 1,
                             Len(queueAtTick)))
  /\ [][(Len(gui_message_queue') < Len(gui_message_queue)) =>
           (/\ gui_message_queue' = Tail(gui_message_queue)
            /\ messages_processed' = messages_processed + 1)]_vars
  /\ [][(tickPc = "loop" /\ tickPc' = "idle") =>
           (gui_message_queue' = gui_message_queue)]_vars

\* a tick has stopped at the limit and left messages in the queue
C23_Witness ==
  /\ tickPc = "idle"
  /\ messages_processed = 10
  /\ Len(queueAtTick) > 10
  /\ gui_message_queue # <<>>

\* C24: run_yt_dlp_command ends after at most retry_attempts + 1 runs of the
\* tool: every run has the args of the call, a retry is decided only while
\* retry_count < retry_attempts, the k-th retry (from 0) sleeps 2^k seconds
\* first, and every call comes to its end
C24_RetryIsBounded ==
  /\ [](/\ invocations <= retry_attempts + 1
        /\ \A i \in 1..Len(invoked_args) : invoked_args[i] = args
        /\ Len(delays) \in {invocations - 1, invocations} \cup {0}
        /\ \A k \in 1..Len(delays) : delays[k] = 2 ^ (k - 1))
  /\ [][Len(delays') > Len(delays) => retry_count < retry_attempts]_vars
  /\ (ytPc = "cookies" ~> ytPc = "over")

\* a call has run the tool retry_attempts + 1 times and has returned None
C24_Witness ==
  /\ ytPc = "over"
  /\ invocations = retry_attempts + 1
  /\ delays = <<1, 2, 4>>
  /\ returned = "None"

\* C25: a retry is decided only after an error the tool reports as 403,
\* forbidden, unauthorized, timeout or connection; after any other error
\* (private or region-blocked content, a malformed url, an unsupported site)
\* the call returns the failure of its single run
C25_PermanentNotRetried ==
  [][Len(delays') > Len(delays) =>
       \E w \in {"403", "forbidden", "unauthorized", "timeout", "connection"} :
         Contains(error_msg, <<w>>)]_vars

\* C26: the worker derives from the stdout line it has read exactly this: a
\* 'Downloading' event with the percentage of the line when the line has the
\* download marker and a <digits>.<digits>% pattern, else a 'Processing'
\* event when the line has [ExtractAudio] or [ffmpeg], else no event
C26_ParsingIsAClassification ==
  [][\A j \in Jobs :
       (pc[j] = "read_stderr" /\ pc'[j] = "loop") =>
         LET line == stdout_line[j]
             put == SubSeq(gui_message_queue', Len(gui_message_queue) + 1,
                           Len(gui_message_queue'))
         IN  IF HasToken(line, "[download]") /\ FirstMatch(line) # <<>>
               THEN /\ Len(put) = 1
                    /\ put[1].status = "Downloading"
                    /\ put[1].progress = FirstMatch(line)
               ELSE IF HasToken(line, "[ExtractAudio]") \/ HasToken(line, "[ffmpeg]")
                      THEN Len(put) = 1 /\ put[1].status = "Processing"
                      ELSE put = <<>>]_vars

\* C27: while the worker of a job is running (it has not come to its terminal
\* status) and the job's 'add_download' has been consumed, the tracker has an
\* entry for the job's url and the entry holds the cancel_event of that
\* worker: no message of another job of the url removes or replaces it
C27_TrackerHoldsRunningWorker ==
  \A j \in Jobs :
    ( /\ pc[j] \in {"start", "popen", "loop", "read_stdout", "read_stderr", "poll"}
      /\ AddDownloadConsumed(j) )
      => /\ active_processes[jobUrl[j]].present
         /\ active_processes[jobUrl[j]].cancel_event = j

\* C28: no url has two rows in the list of the active-downloads model, and
\* none has two rows in active_downloads_data
C28_NoUrlTwice ==
  /\ \A i, k \in 1..Len(model_data) :
       i # k => model_data[i].url # model_data[k].url
  /\ \A i, k \in 1..Len(active_downloads_data) :
       i # k => active_downloads_data[i].url # active_downloads_data[k].url

\* C29: once closeEvent has returned, the cancel_event of every job whose
\* worker has been started and has not returned is set, and no process a
\* worker has started is running
C29_CloseCancelsAll ==
  closed =>
    /\ \A j \in Jobs : pc[j] \notin {"idle", "done"} => cancel_event[j]
    /\ \A j \in Jobs : proc[j].state # "running"

\* C30: when _perform_yt_dlp_download has returned, the cookie file of its
\* job does not exist; when run_yt_dlp_command has returned or raised, at
\* any depth of retries, none of the cookie files of its frames exists
C30_CookieFilesDeleted ==
  /\ \A j \in Jobs : pc[j] = "done" => JobCookieFile(j) \notin cookie_files
  /\ ytPc = "over" =>
       \A f \in cookie_files : f.owner # "run_yt_dlp_command"

\* a worker that wrote a cookie file has put Completed and has returned
C30_Witness ==
  /\ pc[1] = "done"
  /\ needs_cookies(jobUrl[1])
  /\ terminal_status(emitted[1]) = "Completed"
  /\ cookie_files = {}

====
